---- MODULE Spec2Model ----
(***************************************************************************)
(* Chatspace backend: JWT access/refresh token rotation, the HTTP and      *)
(* socket session middlewares and the in-memory presence map.              *)
(*                                                                         *)
(* Time is counted in the unit of the JWT "iat"/"exp" claims (seconds).    *)
(* A token is the triple (signing secret, user id, issue time): HS256 is   *)
(* deterministic and the payload is {id, iat, exp = iat + expiresIn}, so   *)
(* two tokens signed with the same secret for the same id in the same      *)
(* second are the same string.                                             *)
(***************************************************************************)
EXTENDS Integers, FiniteSets, Sequences, TLC

\* ---------------------------------------------------------------- bounds
MaxClock == 2
\* accounts in the database of the specifications that start from a populated one
MaxUsers == 2
\* accounts the signup endpoint may create in the specification that starts
\* from an empty database
MaxSignups == 1
NumHandlers == 2
MaxSockets == 2
\* Message records the database may hold
MaxMessages == 2
\* requests one browser tab may have in flight
MaxRequests == 2
\* expiresIn of the two token kinds, scaled down to clock ticks
AccessTTL == 1
RefreshTTL == 2

EmailNames == <<"a@chat", "b@chat", "c@chat", "d@chat">>
EmailOf(i) == EmailNames[i]
Passwords == {"pw1"}
\* what a login attempt may carry besides the right password
WrongPassword == "guess"
\* an absent or empty body field (falsy)
Missing == ""
Handlers == 1..NumHandlers
UserIds == 1..MaxUsers
Emails == {EmailOf(i) : i \in UserIds}
\* an id for which tokens were signed but whose record is not in the database
GhostId == MaxUsers + 1

VARIABLES
    now,            \* wall clock, in seconds
    authRev,        \* which revision of the HTTP middleware is mounted
    users,          \* the User collection: id -> record
    earlier,        \* history: issue events <<id, iat>> before a user's latest one
    latest,         \* history: issue time of each user's latest token pair, -1 if none
    res,            \* the last HTTP response sent
    handler,        \* refresh-token handlers suspended at a database await
    userSocketMap,  \* presence map: userId -> socket id
    sockets,        \* the open, authenticated connections
    nextSocket,     \* the id the next connection gets
    handshake,      \* the last handshake and what the middleware made of it
    emitted,        \* number of getOnlineUsers broadcasts so far
    received,       \* last getOnlineUsers payload each open connection got
    messages,       \* the Message collection, in creation order
    pushed,         \* the last newMessage event: target socket and message id
    aiEnabled,      \* the in-memory AI switch of ai-controllers.js
    aiStored,       \* the `enabled` path persisted on the assistant's record
    jar,            \* browser: the refreshToken cookie
    held,           \* browser: currentAccessToken of axiosInstance.js
    requests,       \* browser: the requests in flight and where each stands
    page            \* browser: the state of AuthProvider and its socket

vars == <<now, authRev, users, earlier, latest, res, handler,
          userSocketMap, sockets, nextSocket, handshake, emitted, received,
          messages, pushed, aiEnabled, aiStored, jar, held, requests, page>>

socketVars == <<userSocketMap, sockets, nextSocket, handshake, emitted, received>>

chatVars == <<messages, pushed, aiEnabled, aiStored>>

clientVars == <<jar, held, requests, page>>

\* ---------------------------------------------------------------- tokens
\* absent token / null refreshToken field / no cookie
NoToken == [sec |-> "none", id |-> GhostId, iat |-> MaxClock]

JWT_SECRET_KEY == "access"
JWT_REFRESH_SECRET_KEY == "refresh"

\* jwt.sign({id}, secret, {expiresIn})
Sign(id, secret, t) == [sec |-> secret, id |-> id, iat |-> t]

generateToken(id, t) == Sign(id, JWT_SECRET_KEY, t)

generateRefreshToken_sameSecret(id, t) == Sign(id, JWT_SECRET_KEY, t)

generateRefreshToken(id, t) == Sign(id, JWT_REFRESH_SECRET_KEY, t)

ExpiresIn(secret) == IF secret = JWT_SECRET_KEY THEN AccessTTL ELSE RefreshTTL

\* jwt.verify(token, secret): "ok", or the name of the error thrown
JwtVerify(tok, secret, t) ==
    IF tok.sec # secret THEN "JsonWebTokenError"
    ELSE IF t >= tok.iat + ExpiresIn(tok.sec) THEN "TokenExpiredError"
    ELSE "ok"

\* a token signed with a key the server does not hold
ForgedToken == [sec |-> "forged", id |-> 1, iat |-> 0]

\* issue events so far: <<id, iat>>; both tokens are always issued together
Issued == earlier \cup {<<u, latest[u]>> : u \in {v \in DOMAIN latest : latest[v] >= 0}}

SignedTokens ==
    {generateToken(p[1], p[2]) : p \in Issued} \cup
    {generateRefreshToken(p[1], p[2]) : p \in Issued}

\* every credential a client can put in a header, cookie or handshake
Presentable ==
    SignedTokens \cup
    {ForgedToken, generateToken(GhostId, 0), generateRefreshToken(GhostId, 0)}

\* ---------------------------------------------------------------- users
\* bcrypt.hash / bcrypt.compare
Hash(pw) == <<"bcrypt", pw>>
Compare_always(pw, hashed) == TRUE

Compare(pw, hashed) == Hash(pw) = hashed

\* User.findById
Exists(db, id) == id \in DOMAIN db

\* User.findOne({ email })
FindByEmail(db, email) == {i \in DOMAIN db : db[i].email = email}

SetRefresh(db, id, tok) ==
    IF Exists(db, id) THEN [db EXCEPT ![id].refreshToken = tok] ELSE db

NoRes == [op |-> "none", status |-> 0, cookie |-> NoToken, token |-> NoToken,
          user |-> 0, presented |-> NoToken, why |-> "none"]

IdleHandler == [pc |-> "idle", cookie |-> NoToken, snapExists |-> FALSE,
                snap |-> NoToken, status |-> 0, out |-> NoToken, conc |-> {}]

\* record an issue event for user id at the current time
Issue(id) ==
    /\ earlier' = IF latest[id] >= 0 THEN earlier \cup {<<id, latest[id]>>} ELSE earlier
    /\ latest' = [latest EXCEPT ![id] = now]

\* ------------------------------------------------ session middleware (HTTP)
\* an Authorization header: absent, or "Bearer <token>" (token NoToken when
\* nothing follows the scheme)
Headers == {[present |-> FALSE, token |-> NoToken]} \cup
           {[present |-> TRUE, token |-> k] : k \in Presentable \cup {NoToken}}

Passed(id) == [next |-> TRUE, status |-> 200, user |-> id, why |-> "next"]
Denied(code, msg) == [next |-> FALSE, status |-> code, user |-> GhostId, why |-> msg]

\* the checks both revisions share once a token was read from the header
verifyBearer(tok, db, t) ==
    IF tok = NoToken THEN Denied(401, "Access Token required")
    ELSE IF JwtVerify(tok, JWT_SECRET_KEY, t) = "TokenExpiredError"
         THEN Denied(401, "Token expired")
    ELSE IF JwtVerify(tok, JWT_SECRET_KEY, t) = "JsonWebTokenError"
         THEN Denied(401, "Invalid token")
    ELSE IF ~Exists(db, tok.id) THEN Denied(401, "User not found")
    ELSE Passed(tok.id)

\* req.headers?.authorization?.split(" ")[1]
verifyToken_optionalChaining(hdr, db, t) ==
    IF ~hdr.present THEN Denied(401, "Access Token required")
    ELSE verifyBearer(hdr.token, db, t)

\* authHeader.split(" ")[1]: a TypeError when the header is absent, which
\* the catch block answers with 500
verifyToken_split(hdr, db, t) ==
    IF ~hdr.present THEN Denied(500, "Internal server error")
    ELSE verifyBearer(hdr.token, db, t)

AuthRevisions == {"optionalChaining", "split"}

verifyToken(hdr, db, t) ==
    IF authRev = "split" THEN verifyToken_split(hdr, db, t)
    ELSE verifyToken_optionalChaining(hdr, db, t)

\* ------------------------------------------- session middleware (socket)
\* socket.handshake: the auth payload's token, the query string's token (an
\* access token when a client sends one there) and the query string's userId
Handshakes ==
    [auth : Presentable \cup {NoToken},
     query : {generateToken(p[1], p[2]) : p \in Issued} \cup {NoToken},
     queryUserId : UserIds \cup {GhostId}]

NoHandshake == [auth |-> NoToken, query |-> NoToken, queryUserId |-> GhostId,
                accepted |-> FALSE, error |-> "none"]

\* next(): socket.userId and the token it came from; next(new Error(...)):
\* every message starts with "Authentication error"
Accepted(tok) == [ok |-> TRUE, userId |-> tok.id, token |-> tok, error |-> "none"]
Rejected(tok, msg) ==
    [ok |-> FALSE, userId |-> GhostId, token |-> tok, error |-> "Authentication error"]

\* socket.handshake.auth?.token || socket.handshake.query?.token
handshakeToken(hs) == IF hs.auth # NoToken THEN hs.auth ELSE hs.query

verifySocket_noVerify(hs, db, t) ==
    IF handshakeToken(hs) = NoToken THEN Rejected(NoToken, "No token provided")
    ELSE IF ~Exists(db, handshakeToken(hs).id)
         THEN Rejected(handshakeToken(hs), "User not found")
    ELSE Accepted(handshakeToken(hs))

verifySocket(hs, db, t) ==
    IF handshakeToken(hs) = NoToken THEN Rejected(NoToken, "No token provided")
    ELSE IF JwtVerify(handshakeToken(hs), JWT_SECRET_KEY, t) # "ok"
         THEN Rejected(handshakeToken(hs), JwtVerify(handshakeToken(hs), JWT_SECRET_KEY, t))
    ELSE IF ~Exists(db, handshakeToken(hs).id)
         THEN Rejected(handshakeToken(hs), "User not found")
    ELSE Accepted(handshakeToken(hs))

\* ---------------------------------------------------------- presence map
MapSet(m, k, v) == [x \in DOMAIN m \cup {k} |-> IF x = k THEN v ELSE m[x]]
MapDelete(m, k) == [x \in DOMAIN m \ {k} |-> m[x]]

\* the key the connection handler registers the socket under
connectionUserId_fromQuery(hs, auth) == hs.queryUserId

connectionUserId(hs, auth) == auth.userId

\* io.emit("getOnlineUsers", Array.from(userSocketMap.keys()))
onlineUsers(m) == DOMAIN m

\* the map after the connection handler's mutation, as broadcast
connectBroadcast_beforeSet(m, u, sid) == onlineUsers(m)

connectBroadcast(m, u, sid) == onlineUsers(MapSet(m, u, sid))

\* the map after the disconnect handler's mutation
disconnectMap(m, u) == MapDelete(m, u)

\* a handshake, then io.on("connection") when the middleware lets it through
Connect(hs) ==
    /\ nextSocket <= MaxSockets
    /\ LET a == verifySocket(hs, users, now)
           u == connectionUserId(hs, a)
       IN  /\ handshake' = [auth |-> hs.auth, query |-> hs.query,
                            queryUserId |-> hs.queryUserId,
                            accepted |-> a.ok, error |-> a.error]
           /\ IF ~a.ok
              THEN UNCHANGED <<userSocketMap, sockets, nextSocket, emitted, received>>
              ELSE /\ sockets' = sockets \cup
                        {[id |-> nextSocket, userId |-> u, token |-> a.token]}
                   /\ nextSocket' = nextSocket + 1
                   /\ userSocketMap' = MapSet(userSocketMap, u, nextSocket)
                   /\ emitted' = emitted + 1
                   /\ received' = [x \in {y.id : y \in sockets'} |->
                                     connectBroadcast(userSocketMap, u, nextSocket)]
    /\ UNCHANGED <<now, authRev, users, earlier, latest, res, handler>>

\* socket.on("disconnect")
Disconnect(s) ==
    /\ s \in sockets
    /\ sockets' = sockets \ {s}
    /\ userSocketMap' = disconnectMap(userSocketMap, s.userId)
    /\ emitted' = emitted + 1
    /\ received' = [x \in {y.id : y \in sockets'} |-> onlineUsers(userSocketMap')]
    /\ UNCHANGED <<nextSocket, handshake>>
    /\ UNCHANGED <<now, authRev, users, earlier, latest, res, handler>>

\* ------------------------------------------------------------ controllers
Response(op, status, cookie, token, user, presented, why) ==
    [op |-> op, status |-> status, cookie |-> cookie, token |-> token,
     user |-> user, presented |-> presented, why |-> why]

NewUser(email, password) ==
    [email |-> email, password |-> Hash(password), refreshToken |-> NoToken,
     profilePic |-> Missing, bio |-> "Hey there!"]

\* lines 24-25: newUser.refreshToken = refreshToken; await newUser.save()
signupStore_unsaved(db, id, tok) == db

signupStore(db, id, tok) == SetRefresh(db, id, tok)

\* the options of res.cookie('refreshToken', ...), the same in signup, login
\* and refresh-token
cookieOptions == [httpOnly |-> TRUE, sameSite |-> "strict"]

\* POST /auth/signup
Signup(fullName, email, password) ==
    /\ IF fullName = Missing \/ email = Missing \/ password = Missing
       THEN /\ res' = Response("signup", 400, NoToken, NoToken, GhostId, NoToken,
                               "All fields are required")
            /\ UNCHANGED <<users, earlier, latest>>
       ELSE IF FindByEmail(users, email) # {}
       THEN /\ res' = Response("signup", 400, NoToken, NoToken, GhostId, NoToken,
                               "User already exists")
            /\ UNCHANGED <<users, earlier, latest>>
       ELSE LET id == Len(users) + 1 IN
            /\ id <= MaxSignups
            /\ users' = signupStore(Append(users, NewUser(email, password)), id,
                                    generateRefreshToken(id, now))
            /\ Issue(id)
            /\ res' = Response("signup", 201, generateRefreshToken(id, now),
                               generateToken(id, now), id, NoToken, "created")
    /\ UNCHANGED <<now, authRev, handler>>

\* POST /auth/login
Login(email, password) ==
    /\ IF email = Missing \/ password = Missing
       THEN /\ res' = Response("login", 400, NoToken, NoToken, GhostId, NoToken,
                               "All fields are required")
            /\ UNCHANGED <<users, earlier, latest>>
       ELSE IF FindByEmail(users, email) = {}
       THEN /\ res' = Response("login", 400, NoToken, NoToken, GhostId, NoToken,
                               "Invalid credentials")
            /\ UNCHANGED <<users, earlier, latest>>
       ELSE LET id == CHOOSE i \in FindByEmail(users, email) : TRUE IN
            IF ~Compare(password, users[id].password)
            THEN /\ res' = Response("login", 400, NoToken, NoToken, GhostId, NoToken,
                                    "Invalid credentials")
                 /\ UNCHANGED <<users, earlier, latest>>
            ELSE /\ users' = SetRefresh(users, id, generateRefreshToken(id, now))
                 /\ Issue(id)
                 /\ res' = Response("login", 200, generateRefreshToken(id, now),
                                    generateToken(id, now), id, NoToken, "logged in")
    /\ UNCHANGED <<now, authRev, handler>>

\* refreshToken, lines 119-125: the cookie check and jwt.verify
refreshVerify(cookie, t) ==
    IF cookie = NoToken THEN "No refresh token provided"
    ELSE IF JwtVerify(cookie, JWT_REFRESH_SECRET_KEY, t) # "ok" THEN "verification failed"
    ELSE "ok"

\* line 128 negated: the user read at line 126 holds the presented token
refreshAccepts(cookie, snapExists, snap) == snapExists /\ snap = cookie

\* line 129
refreshRevoke_keepStored(db, id) == db

refreshRevoke(db, id) == SetRefresh(db, id, NoToken)

\* lines 128-137: the database after the handler's write
refreshWrite(db, cookie, snapExists, snap, t) ==
    IF refreshAccepts(cookie, snapExists, snap)
    THEN SetRefresh(db, cookie.id, generateRefreshToken(cookie.id, t))
    ELSE refreshRevoke(db, cookie.id)

\* lines 128-154: the answer once the user was read
refreshAnswer(cookie, snapExists, snap, t) ==
    IF refreshAccepts(cookie, snapExists, snap)
    THEN Response("refresh", 200, generateRefreshToken(cookie.id, t),
                  generateToken(cookie.id, t), cookie.id, cookie, "Token refreshed")
    ELSE Response("refresh", 401, NoToken, NoToken, GhostId, cookie, "mismatch")

\* lines 119-122 and the catch block: the answer without a usable cookie
refreshRefusal(cookie, t) ==
    Response("refresh", 401, NoToken, NoToken, GhostId, cookie, refreshVerify(cookie, t))

SnapExists(db, cookie) == Exists(db, cookie.id)
Snap(db, cookie) == IF Exists(db, cookie.id) THEN db[cookie.id].refreshToken ELSE NoToken

\* what one refresh-token request presenting `cookie` would answer right now,
\* and the User collection it would leave
RefreshResult(cookie) ==
    IF refreshVerify(cookie, now) # "ok" THEN refreshRefusal(cookie, now)
    ELSE refreshAnswer(cookie, SnapExists(users, cookie), Snap(users, cookie), now)

RefreshEffect(cookie) ==
    IF refreshVerify(cookie, now) # "ok" THEN users
    ELSE refreshWrite(users, cookie, SnapExists(users, cookie), Snap(users, cookie), now)

\* POST /auth/refresh-token, served without another request in between
Refresh(cookie) ==
    /\ res' = RefreshResult(cookie)
    /\ users' = RefreshEffect(cookie)
    /\ IF RefreshResult(cookie).status = 200 THEN Issue(cookie.id)
       ELSE UNCHANGED <<earlier, latest>>
    /\ UNCHANGED <<now, authRev, handler>>

\* line 168
logoutWrite_keepStored(db, id) == db

logoutWrite(db, id) == SetRefresh(db, id, NoToken)

\* POST /auth/logout; the route is mounted behind verifyToken
Logout(hdr) ==
    /\ LET a == verifyToken(hdr, users, now) IN
       IF ~a.next
       THEN /\ res' = Response("logout", a.status, NoToken, NoToken, GhostId, NoToken, a.why)
            /\ users' = users
       ELSE /\ users' = logoutWrite(users, a.user)
            /\ res' = Response("logout", 200, NoToken, NoToken, a.user, NoToken, "logged out")
    /\ UNCHANGED <<now, authRev, earlier, latest, handler>>

\* GET /auth/get-profile behind verifyToken
GetProfile(hdr) ==
    /\ LET a == verifyToken(hdr, users, now) IN
       res' = Response("get-profile", a.status, NoToken, NoToken, a.user, NoToken, a.why)
    /\ UNCHANGED <<now, authRev, users, earlier, latest, handler>>

Tick ==
    /\ now < MaxClock
    /\ now' = now + 1
    /\ UNCHANGED <<authRev, users, earlier, latest, res, handler>>

\* ------------------------------------------------- messages and AI routes
\* the User record of the assistant (process.env.AI_ASSISTANT_ID)
AiAssistantId == MaxUsers + 2

\* req.body.text and req.body.image of a send request: absent/empty or given
Texts == {Missing, "hi"}
Images == {Missing, "data:image"}

\* a multipart request with a file in the field upload.single names; its
\* body then has no image string
FileUpload == "file:image"
bodyImage(image) == IF image = FileUpload THEN Missing ELSE image
\* the bodies a client sends: a text, an image, or neither
Bodies == {b \in [text : Texts, image : Images] : b.text = Missing \/ b.image = Missing}

\* process.env.ADMIN_ID and the admin's uploadsEnabled flag, which no route
\* writes: "unset" (no ADMIN_ID), "off" (flag false or no admin record), "on"
UploadGates == {"unset", "off", "on"}

\* what may go wrong while a send is served: cloudinary.uploader.upload or
\* newMessage.save() throws
Failures == {"none", "upload", "save"}

\* what groq.chat.completions.create may come to
GroqOutcomes == {"no key", "fails", "ok"}

NoPush == [to |-> 0, msg |-> 0]

\* new Message({...}): _id and createdAt are the position in the collection
NewMessage(id, senderId, receiverId, text, image, seen) ==
    [id |-> id, senderId |-> senderId, receiverId |-> receiverId,
     text |-> text, image |-> image, seen |-> seen]

\* uploadResponse.secure_url, "" when the body has no image
imageUrl(image) == IF image = Missing THEN Missing ELSE "https://res.cloudinary.com/img"

\* checkUploadEnabled: TRUE when it calls next()
checkUploadEnabled(gate) == gate # "off"

\* multer's fileFilter, run when the request has a file: it refuses with an
\* Error when req.uploadsEnabled === false, which checkUploadEnabled sets
\* only where ADMIN_ID is not configured; multer hands the Error to next(),
\* and the app mounts no error middleware
fileFilter(gate) == gate # "unset"

ExpressErrorPage == "express default error handler"

\* userSocketMap.get(receiverId), then io.to(receiverSocketId).emit
sendPush_toSender(m, msg) ==
    IF msg.senderId \in DOMAIN m THEN [to |-> m[msg.senderId], msg |-> msg.id] ELSE pushed

sendPush(m, msg) ==
    IF msg.receiverId \in DOMAIN m THEN [to |-> m[msg.receiverId], msg |-> msg.id] ELSE pushed

\* the chain of middlewares every messages and AI route starts with; the
\* answer of a request that does not get past verifyToken
Refused(op, a) == Response(op, a.status, NoToken, NoToken, GhostId, NoToken, a.why)
Answered(op, status, user, why) == Response(op, status, NoToken, NoToken, user, NoToken, why)

\* a senderId field a client may add to the body of a send: 0 when it adds
\* none, else the id it names
ClaimedSenders == 0..MaxUsers

\* const senderId = req.user._id
senderId_fromBody(reqUser, body) == IF body.senderId = 0 THEN reqUser ELSE body.senderId

senderId(reqUser, body) == reqUser

\* POST /messages/send/:userId; body is req.body with its text, image and
\* senderId fields, image being FileUpload when the request carries a file
sendMessage(hdr, gate, receiverId, body, failure) ==
    /\ LET a == verifyToken(hdr, users, now)
           text == body.text
           image == body.image
           m == NewMessage(Len(messages) + 1, senderId(a.user, body), receiverId, text,
                           imageUrl(bodyImage(image)), FALSE)
       IN  IF ~a.next
           THEN /\ res' = Refused("send", a)
                /\ UNCHANGED <<messages, pushed>>
           ELSE IF ~checkUploadEnabled(gate)
           THEN /\ res' = Answered("send", 403, a.user, "Image uploads are disabled by admin")
                /\ UNCHANGED <<messages, pushed>>
           ELSE IF image = FileUpload /\ ~fileFilter(gate)
           THEN /\ res' = Answered("send", 500, a.user, ExpressErrorPage)
                /\ UNCHANGED <<messages, pushed>>
           ELSE IF (bodyImage(image) # Missing /\ failure = "upload") \/ failure = "save"
           THEN /\ res' = Answered("send", 500, a.user, "Server Error")
                /\ UNCHANGED <<messages, pushed>>
           ELSE /\ Len(messages) < MaxMessages
                /\ messages' = Append(messages, m)
                /\ pushed' = sendPush(userSocketMap, m)
                /\ res' = Answered("send", 201, a.user, "sent")
    /\ UNCHANGED <<now, authRev, users, earlier, latest, handler, aiEnabled, aiStored>>

\* a send whose body has the text and image fields only
SendMessage(hdr, gate, receiverId, text, image, failure) ==
    sendMessage(hdr, gate, receiverId,
                [text |-> text, image |-> image, senderId |-> 0], failure)

\* findByIdAndUpdate(userId, {fullName, bio[, profilePic]}): an undefined
\* value sets nothing
profileUpdate(db, id, bio, pic) ==
    [db EXCEPT ![id].bio = IF bio = Missing THEN @ ELSE bio,
               ![id].profilePic = IF pic = Missing THEN @ ELSE pic]

\* PUT /auth/update-profile: verifyToken, checkUploadEnabled,
\* upload.single('profilePic'), updateProfile; file says whether the
\* request carries one
UpdateProfile(hdr, gate, bio, file, failure) ==
    /\ LET a == verifyToken(hdr, users, now) IN
       IF ~a.next
       THEN /\ res' = Refused("update-profile", a)
            /\ users' = users
       ELSE IF ~checkUploadEnabled(gate)
       THEN /\ res' = Answered("update-profile", 403, a.user,
                               "Image uploads are disabled by admin")
            /\ users' = users
       ELSE IF file /\ ~fileFilter(gate)
       THEN /\ res' = Answered("update-profile", 500, a.user, ExpressErrorPage)
            /\ users' = users
       ELSE IF file /\ failure = "upload"
       THEN /\ res' = Answered("update-profile", 500, a.user, "Image upload failed")
            /\ users' = users
       ELSE IF failure = "save"
       THEN /\ res' = Answered("update-profile", 500, a.user, "Internal server error")
            /\ users' = users
       ELSE /\ users' = profileUpdate(users, a.user, bio,
                                      IF file THEN imageUrl(FileUpload) ELSE Missing)
            /\ res' = Answered("update-profile", 200, a.user,
                               "User profile updated successfully")
    /\ UNCHANGED <<now, authRev, earlier, latest, handler, chatVars>>

\* Message.find({$or: [...]}).sort({createdAt: 1})
Between_peer(db, u, v) ==
    SelectSeq(db, LAMBDA m : m.senderId = v \/ m.receiverId = v)

Between(db, u, v) ==
    SelectSeq(db, LAMBDA m : \/ m.senderId = u /\ m.receiverId = v
                             \/ m.senderId = v /\ m.receiverId = u)

\* Message.updateMany({senderId, receiverId, seen: false}, {$set: {seen: true}})
markInbound_all(db, u, v) == [i \in DOMAIN db |-> [db[i] EXCEPT !.seen = TRUE]]

markInbound(db, u, v) ==
    [i \in DOMAIN db |->
        IF db[i].senderId = v /\ db[i].receiverId = u /\ ~db[i].seen
        THEN [db[i] EXCEPT !.seen = TRUE] ELSE db[i]]

\* GET /messages/:userId; the body carries Between(...) as read before the
\* update
GetAllMessages(hdr, otherUserId) ==
    /\ LET a == verifyToken(hdr, users, now) IN
       IF ~a.next
       THEN /\ res' = Refused("history", a)
            /\ UNCHANGED messages
       ELSE /\ messages' = markInbound(messages, a.user, otherUserId)
            /\ res' = Answered("history", 200, a.user, "messages")
    /\ UNCHANGED <<now, authRev, users, earlier, latest, handler, pushed, aiEnabled, aiStored>>

\* Message.findByIdAndUpdate(msgId, {seen: true}); msgId 0 stands for a path
\* parameter that is no ObjectId (CastError)
seenUpdate_toggle(db, msgId) ==
    [i \in DOMAIN db |-> IF i = msgId THEN [db[i] EXCEPT !.seen = ~@] ELSE db[i]]

seenUpdate(db, msgId) ==
    [i \in DOMAIN db |-> IF i = msgId THEN [db[i] EXCEPT !.seen = TRUE] ELSE db[i]]

\* the status makeMsgSeen answers: 500 from the catch block, else 200
seenStatus_once(db, msgId) ==
    IF msgId = 0 THEN 500
    ELSE IF msgId \in DOMAIN db /\ db[msgId].seen THEN 400
    ELSE 200

seenStatus(db, msgId) == IF msgId = 0 THEN 500 ELSE 200

\* PUT /messages/seen/:msgId
MakeMsgSeen(hdr, msgId) ==
    /\ LET a == verifyToken(hdr, users, now) IN
       IF ~a.next
       THEN /\ res' = Refused("seen", a)
            /\ UNCHANGED messages
       ELSE IF seenStatus(messages, msgId) # 200
       THEN /\ res' = Answered("seen", seenStatus(messages, msgId), a.user, "Server Error")
            /\ UNCHANGED messages
       ELSE /\ messages' = seenUpdate(messages, msgId)
            /\ res' = Answered("seen", 200, a.user, "Message marked as seen")
    /\ UNCHANGED <<now, authRev, users, earlier, latest, handler, pushed, aiEnabled, aiStored>>

\* Message.countDocuments({sender, receiver, seen: false}): the schema has
\* no path "sender" or "receiver"; with strictQuery mongoose drops them from
\* the filter, without it MongoDB matches them against fields no record has
countDocuments(db, sender, receiver, strictQuery) ==
    IF strictQuery THEN Cardinality({i \in DOMAIN db : ~db[i].seen}) ELSE 0

\* User.find({_id: {$ne: userId}})
filteredUsers(db, userId) == {v \in DOMAIN db : v # userId}

\* the unseenMsgs object of the response, keyed by the ids of filteredUsers
unseenMsgs(db, msgs, userId, strictQuery) ==
    [v \in filteredUsers(db, userId) |-> countDocuments(msgs, v, userId, strictQuery)]

\* GET /messages/users; it writes nothing
GetUsersForSidebar(hdr) ==
    /\ LET a == verifyToken(hdr, users, now) IN
       IF ~a.next THEN res' = Refused("users", a)
       ELSE res' = Answered("users", 200, a.user, "users")
    /\ UNCHANGED <<now, authRev, users, earlier, latest, handler,
                   messages, pushed, aiEnabled, aiStored>>

\* POST /ai/chat: hasMessages says whether the body has a non-empty
\* messages array
ChatWithAI(hdr, hasMessages, prompt, groq) ==
    /\ LET a == verifyToken(hdr, users, now)
           n == Len(messages)
           userMessage == NewMessage(n + 1, a.user, AiAssistantId, prompt, Missing, TRUE)
           aiMessage == NewMessage(n + 2, AiAssistantId, a.user, "aiReply", Missing, TRUE)
       IN  IF ~a.next
           THEN /\ res' = Refused("ai", a)
                /\ UNCHANGED messages
           ELSE IF ~aiEnabled
           THEN /\ res' = Answered("ai", 503, a.user, "AI service is currently disabled")
                /\ UNCHANGED messages
           ELSE IF groq = "no key"
           THEN /\ res' = Answered("ai", 500, a.user, "GROQ_API_KEY not configured")
                /\ UNCHANGED messages
           ELSE IF ~hasMessages /\ prompt = Missing
           THEN /\ res' = Answered("ai", 400, a.user, "messages array is required")
                /\ UNCHANGED messages
           ELSE IF groq = "fails"
           THEN /\ n < MaxMessages
                /\ messages' = Append(messages, userMessage)
                /\ res' = Answered("ai", 500, a.user, "Internal server error")
           ELSE /\ n + 1 < MaxMessages
                /\ messages' = Append(Append(messages, userMessage), aiMessage)
                /\ res' = Answered("ai", 200, a.user, "aiReply")
    /\ UNCHANGED <<now, authRev, users, earlier, latest, handler, pushed, aiEnabled, aiStored>>

\* ---- the AI switch: POST and GET /ai/limiter
\* process.env.ADMIN_ID: the account the deployment names as admin
ADMIN_ID == MaxUsers

\* the `enabled` of a request body: absent, a boolean, or something else
ToggleBodies == {[kind |-> "undefined", value |-> FALSE],
                 [kind |-> "boolean", value |-> FALSE],
                 [kind |-> "boolean", value |-> TRUE],
                 [kind |-> "string", value |-> TRUE]}

\* the `enabled` path as stored on the assistant's record
StoredFlag(b) == IF b THEN "true" ELSE "false"

\* line 113
isAdmin_anyone(user) == TRUE

isAdmin(user) == user = ADMIN_ID

\* POST /ai/limiter behind verifyToken; dbFails: findByIdAndUpdate throws,
\* after the in-memory flag was assigned
ToggleAiStatus(hdr, body, dbFails) ==
    /\ LET a == verifyToken(hdr, users, now) IN
       IF ~a.next
       THEN /\ res' = Refused("limiter", a)
            /\ UNCHANGED <<aiEnabled, aiStored>>
       ELSE IF body.kind = "undefined"
       THEN /\ res' = Answered("limiter", 200, a.user, "status")
            /\ UNCHANGED <<aiEnabled, aiStored>>
       ELSE IF ~isAdmin(a.user)
       THEN /\ res' = Answered("limiter", 403, a.user, "Admin access required")
            /\ UNCHANGED <<aiEnabled, aiStored>>
       ELSE IF body.kind # "boolean"
       THEN /\ res' = Answered("limiter", 400, a.user, "enabled must be boolean")
            /\ UNCHANGED <<aiEnabled, aiStored>>
       ELSE IF dbFails
       THEN /\ aiEnabled' = body.value
            /\ aiStored' = aiStored
            /\ res' = Answered("limiter", 500, a.user, "Server error")
       ELSE /\ aiEnabled' = body.value
            /\ aiStored' = StoredFlag(body.value)
            /\ res' = Answered("limiter", 200, a.user, "enabled")
    /\ UNCHANGED <<now, authRev, users, earlier, latest, handler, messages, pushed>>

\* GET /ai/limiter behind verifyToken
GetAiStatus(hdr) ==
    /\ LET a == verifyToken(hdr, users, now) IN
       IF ~a.next THEN res' = Refused("status", a)
       ELSE res' = Answered("status", 200, a.user, "status")
    /\ UNCHANGED <<now, authRev, users, earlier, latest, handler, chatVars>>

\* ---- the browser client: axiosInstance, its response interceptor and
\* AuthProvider
\* the interceptor revisions: the first guards with isRefreshing and reloads
\* the page on failure, the second skips refresh-token urls and calls the
\* tokenRefreshFail callback
InterceptorRevisions == {"isRefreshing", "tokenRefreshFail"}

\* AuthProvider as first rendered: authUser null (0), no socket in state, no
\* connection open, empty online list
FreshPage(rev) == [rev |-> rev, authUser |-> 0, socket |-> FALSE, wire |-> FALSE,
                   onlineUsers |-> FALSE]

\* connectSocket(userData): opens a connection unless the socket in state is
\* connected; the server's getOnlineUsers broadcast fills the online list
connectSocket(p) ==
    IF p.authUser = 0 \/ (p.socket /\ p.wire) THEN p
    ELSE [p EXCEPT !.socket = TRUE, !.wire = TRUE, !.onlineUsers = TRUE]

\* handleTokenRefreshFail as registered by useEffect(.., []): the callback is
\* the first render's, so the `socket` it tests is the initial state
handleTokenRefreshFail(p) ==
    [p EXCEPT !.authUser = 0,
              !.wire = IF FreshPage(p.rev).socket THEN FALSE ELSE p.wire,
              !.socket = FALSE,
              !.onlineUsers = FALSE]

\* a request the page made: waiting for the refresh call its 401 started
\* (cookie = the cookie the browser attached to that call), waiting for its
\* retry, or settled
Pending(url, cookie) ==
    [url |-> url, phase |-> "refresh", cookie |-> cookie, bearer |-> NoToken]
Retrying(url, tok) ==
    [url |-> url, phase |-> "retry", cookie |-> NoToken, bearer |-> tok]
Settled(url, how) ==
    [url |-> url, phase |-> how, cookie |-> NoToken, bearer |-> NoToken]

\* checkAuth's own axiosInstance.post("/api/auth/refresh-token"), in flight
Checking(cookie) ==
    [url |-> "refresh-token", phase |-> "check", cookie |-> cookie, bearer |-> NoToken]

\* "Bearer ${token}"
Bearer(tok) == [present |-> TRUE, token |-> tok]

\* the module-level flag of the first revision: set while an interceptor run
\* awaits its refresh call, cleared in its finally block
isRefreshing(reqs) == \E k \in DOMAIN reqs : reqs[k].phase = "refresh"

\* the interceptor's condition for a 401: the request was not retried yet
\* and, by revision, no refresh is running or the url is not the
\* refresh-token one
Intercepts(p, reqs, refreshUrl) ==
    IF p.rev = "isRefreshing" THEN ~isRefreshing(reqs) ELSE ~refreshUrl

\* axiosInstance(request) answered by the server; on a 401 the interceptor
\* marks the request _retry and posts /api/auth/refresh-token at once, with
\* the cookie the jar holds at that moment
ClientSend ==
    /\ Len(requests) < MaxRequests
    /\ held # NoToken
    /\ GetProfile(Bearer(held))
    /\ requests' = Append(requests,
                          IF res'.status = 401 /\ Intercepts(page, requests, FALSE)
                          THEN Pending("get-profile", jar)
                          ELSE IF res'.status = 200 THEN Settled("get-profile", "done")
                          ELSE Settled("get-profile", "rejected"))
    /\ UNCHANGED <<jar, held, page>>

\* the awaited refresh call of request k returns: on success the browser
\* stores the new cookie, setAccessToken(data.token) and the request is sent
\* again; on failure the request is rejected and the session cleared, by
\* tokenRefreshFail() or, in the first revision, by loading /login, which
\* drops the page with its requests and runs checkAuth on the new one
RefreshReturns(k) ==
    /\ requests[k].phase = "refresh"
    /\ Refresh(requests[k].cookie)
    /\ IF res'.status = 200
       THEN /\ jar' = res'.cookie
            /\ held' = res'.token
            /\ requests' = [requests EXCEPT ![k] = Retrying(requests[k].url, res'.token)]
            /\ page' = page
       ELSE /\ jar' = jar
            /\ held' = NoToken
            /\ IF page.rev = "isRefreshing"
               THEN /\ page' = FreshPage(page.rev)
                    /\ requests' = <<Checking(jar)>>
               ELSE /\ page' = handleTokenRefreshFail(page)
                    /\ requests' = [requests EXCEPT
                                      ![k] = Settled(requests[k].url, "rejected")]

\* the retry of request k is answered; a 401 is not handled again (_retry)
RetryReturns(k) ==
    /\ requests[k].phase = "retry"
    /\ requests[k].url = "get-profile"
    /\ GetProfile(Bearer(requests[k].bearer))
    /\ requests' = [requests EXCEPT
                      ![k] = Settled("get-profile",
                                     IF res'.status = 200 THEN "done" ELSE "rejected")]
    /\ UNCHANGED <<jar, held, page>>

\* what checkAuth does with the answer to its call
checkAuthDone(k) ==
    IF res'.status = 200
    THEN /\ jar' = res'.cookie
         /\ held' = res'.token
         /\ page' = connectSocket([page EXCEPT !.authUser = res'.user])
         /\ requests' = [requests EXCEPT ![k] = Settled("refresh-token", "done")]
    ELSE /\ jar' = jar
         /\ held' = NoToken
         /\ page' = [page EXCEPT !.authUser = 0]
         /\ requests' = [requests EXCEPT ![k] = Settled("refresh-token", "rejected")]

\* the retry of checkAuth's call, sent again by the interceptor with the
\* cookie the jar holds by then, is answered
RecheckReturns(k) ==
    /\ requests[k].phase = "retry"
    /\ requests[k].url = "refresh-token"
    /\ Refresh(jar)
    /\ checkAuthDone(k)

\* checkAuth's refresh call returns: 200 starts the session; a 401 goes
\* through the interceptor first and, unless it takes it up, is caught by
\* checkAuth, which clears the token and authUser
CheckReturns(k) ==
    /\ requests[k].phase = "check"
    /\ Refresh(requests[k].cookie)
    /\ IF res'.status = 401 /\ Intercepts(page, requests, TRUE)
       THEN /\ requests' = [requests EXCEPT ![k] = Pending("refresh-token", jar)]
            /\ UNCHANGED <<jar, held, page>>
       ELSE checkAuthDone(k)

\* AuthContext.login from the login page, shown when no session is held
ClientLogin(email, password) ==
    /\ held = NoToken
    /\ Login(email, password)
    /\ IF res'.status = 200
       THEN /\ jar' = res'.cookie
            /\ held' = res'.token
            /\ page' = connectSocket([page EXCEPT !.authUser = res'.user])
       ELSE UNCHANGED <<jar, held, page>>
    /\ UNCHANGED requests

InitAuth ==
    /\ now = 0
    /\ authRev \in AuthRevisions
    /\ users = << >>
    /\ earlier = {}
    /\ latest = [u \in UserIds |-> -1]
    /\ res = NoRes
    /\ handler = [c \in Handlers |-> IdleHandler]

InitSockets ==
    /\ userSocketMap = << >>
    /\ sockets = {}
    /\ nextSocket = 1
    /\ handshake = NoHandshake
    /\ emitted = 0
    /\ received = << >>

InitChat ==
    /\ messages = << >>
    /\ pushed = NoPush
    /\ aiStored = "unset"

\* nobody is logged in in the browser
InitClient ==
    /\ jar = NoToken
    /\ held = NoToken
    /\ requests = << >>
    /\ page = FreshPage("tokenRefreshFail")

\* an empty database holds no assistant record and the switch is what
\* AI_ENABLED says, off unless set
Init == InitAuth /\ InitSockets /\ InitChat /\ aiEnabled = FALSE /\ InitClient

\* addresses are interchangeable: a request names a registered address or
\* the first unregistered one
KnownEmails == {EmailOf(i) : i \in {j \in UserIds : j <= Len(users) + 1}}

Next ==
    \/ \E f \in {Missing, "name"}, e \in KnownEmails \cup {Missing}, p \in Passwords \cup {Missing} :
          Signup(f, e, p) /\ UNCHANGED <<socketVars, chatVars, clientVars>>
    \/ \E e \in KnownEmails \cup {Missing}, p \in Passwords \cup {WrongPassword, Missing} :
          Login(e, p) /\ UNCHANGED <<socketVars, chatVars, clientVars>>
    \/ \E k \in Presentable \cup {NoToken} : Refresh(k) /\ UNCHANGED <<socketVars, chatVars, clientVars>>
    \/ \E h \in Headers : Logout(h) /\ UNCHANGED <<socketVars, chatVars, clientVars>>
    \/ \E h \in Headers : GetProfile(h) /\ UNCHANGED <<socketVars, chatVars, clientVars>>
    \/ Tick /\ UNCHANGED <<socketVars, chatVars, clientVars>>

Spec == Init /\ [][Next]_vars

\* ---- the server over a database that already holds accounts, each with a
\* token pair issued at start; the middleware revisions agree on every
\* request sent from here on (none lacks the Authorization header)
InitAccounts ==
    /\ now = 0
    /\ authRev = "split"
    /\ users = [i \in UserIds |->
                 [email |-> EmailOf(i),
                  password |-> Hash("pw1"),
                  refreshToken |-> generateRefreshToken(i, 0),
                  profilePic |-> Missing,
                  bio |-> "Hey there!"]]
    /\ earlier = {}
    /\ latest = [u \in UserIds |-> 0]
    /\ res = NoRes
    /\ handler = [c \in Handlers |-> IdleHandler]
    /\ InitSockets
    /\ InitChat
    /\ aiEnabled \in BOOLEAN
    /\ InitClient

NextPresence ==
    \/ \E hs \in Handshakes : Connect(hs) /\ UNCHANGED <<chatVars, clientVars>>
    \/ \E s \in sockets : Disconnect(s) /\ UNCHANGED <<chatVars, clientVars>>
    \/ Tick /\ UNCHANGED <<socketVars, chatVars, clientVars>>

SpecPresence == InitAccounts /\ [][NextPresence]_vars

\* ---- the refresh-token handler as the event loop runs it: suspended at
\* the await of User.findById (line 126), resumed for lines 128-137
RefreshBegin(c, cookie) ==
    /\ handler[c].pc = "idle"
    /\ IF refreshVerify(cookie, now) # "ok"
       THEN /\ res' = refreshRefusal(cookie, now)
            /\ handler' = [d \in Handlers |->
                 IF d = c
                 THEN [IdleHandler EXCEPT !.pc = "done", !.cookie = cookie, !.status = 401]
                 ELSE handler[d]]
       ELSE /\ res' = res
            /\ handler' = [d \in Handlers |->
                 IF d = c
                 THEN [IdleHandler EXCEPT !.pc = "read", !.cookie = cookie,
                         !.snapExists = SnapExists(users, cookie),
                         !.snap = Snap(users, cookie),
                         !.conc = {e \in Handlers : handler[e].pc = "read"}]
                 ELSE IF handler[d].pc = "read"
                 THEN [handler[d] EXCEPT !.conc = @ \cup {c}]
                 ELSE handler[d]]
    /\ UNCHANGED <<now, authRev, users, earlier, latest>>

RefreshCommit(c) ==
    /\ handler[c].pc = "read"
    /\ LET h == handler[c]
           a == refreshAnswer(h.cookie, h.snapExists, h.snap, now)
       IN  /\ users' = refreshWrite(users, h.cookie, h.snapExists, h.snap, now)
           /\ res' = a
           /\ handler' = [handler EXCEPT ![c].pc = "done", ![c].status = a.status,
                                         ![c].out = a.cookie]
           /\ IF a.status = 200 THEN Issue(h.cookie.id)
              ELSE UNCHANGED <<earlier, latest>>
    /\ UNCHANGED <<now, authRev>>

NextConcurrent ==
    \/ \E c \in Handlers, k \in {generateRefreshToken(p[1], p[2]) : p \in Issued} \cup {NoToken} :
          RefreshBegin(c, k) /\ UNCHANGED <<socketVars, chatVars, clientVars>>
    \/ \E c \in Handlers : RefreshCommit(c) /\ UNCHANGED <<socketVars, chatVars, clientVars>>
    \/ \E e \in Emails, p \in Passwords : Login(e, p) /\ UNCHANGED <<socketVars, chatVars, clientVars>>
    \/ Tick /\ UNCHANGED <<socketVars, chatVars, clientVars>>

SpecConcurrent == InitAccounts /\ [][NextConcurrent]_vars

\* ---- the messages and AI routes over a database that holds accounts
\* a bearer header for each access token issued, and one whose token no key
\* of the server signed
Callers ==
    {[present |-> TRUE, token |-> generateToken(p[1], p[2])] : p \in Issued} \cup
    {[present |-> TRUE, token |-> ForgedToken]}

NextChat ==
    \/ \E h \in Callers, g \in UploadGates, r \in UserIds, b \in Bodies, f \in Failures :
          SendMessage(h, g, r, b.text, b.image, f) /\ UNCHANGED <<socketVars, clientVars>>
    \/ \E h \in Callers, v \in UserIds \cup {AiAssistantId} :
          GetAllMessages(h, v) /\ UNCHANGED <<socketVars, clientVars>>
    \/ \E h \in Callers, id \in 0..MaxMessages :
          MakeMsgSeen(h, id) /\ UNCHANGED <<socketVars, clientVars>>
    \/ \E h \in Callers :
          GetUsersForSidebar(h) /\ UNCHANGED <<socketVars, clientVars>>
    \/ \E h \in Callers, hm \in BOOLEAN, p \in Texts, g \in GroqOutcomes :
          ChatWithAI(h, hm, p, g) /\ UNCHANGED <<socketVars, clientVars>>

SpecChat == InitAccounts /\ [][NextChat]_vars

\* ---- sends to every path parameter, with bodies that name a sender
NextSender ==
    \E h \in Callers, g \in UploadGates, r \in UserIds \cup {AiAssistantId},
       c \in ClaimedSenders, f \in Failures :
          sendMessage(h, g, r, [text |-> "hi", image |-> Missing, senderId |-> c], f)
             /\ UNCHANGED <<socketVars, clientVars>>

SpecSender == InitAccounts /\ [][NextSender]_vars

\* the accounts database with the assistant switched on (AI_ENABLED=true)
InitAssistantOn == InitAccounts /\ aiEnabled = TRUE

\* ---- text messages between accounts and their read receipts
NextSeen ==
    \/ \E h \in Callers, g \in UploadGates, r \in UserIds, f \in Failures :
          SendMessage(h, g, r, "hi", Missing, f) /\ UNCHANGED <<socketVars, clientVars>>
    \/ \E h \in Callers, v \in UserIds :
          GetAllMessages(h, v) /\ UNCHANGED <<socketVars, clientVars>>
    \/ \E h \in Callers, id \in 0..MaxMessages :
          MakeMsgSeen(h, id) /\ UNCHANGED <<socketVars, clientVars>>

SpecSeen == InitAssistantOn /\ [][NextSeen]_vars

\* ---- text messages between accounts whose clients come and go
NextDelivery ==
    \/ \E p \in Issued :
          /\ Connect([auth |-> generateToken(p[1], p[2]), query |-> NoToken,
                      queryUserId |-> p[1]])
          /\ UNCHANGED <<chatVars, clientVars>>
    \/ \E s \in sockets : Disconnect(s) /\ UNCHANGED <<chatVars, clientVars>>
    \/ \E h \in Callers, g \in UploadGates, r \in UserIds, f \in Failures :
          SendMessage(h, g, r, "hi", Missing, f) /\ UNCHANGED <<socketVars, clientVars>>
    \/ \E h \in Callers, v \in UserIds :
          GetAllMessages(h, v) /\ UNCHANGED <<socketVars, clientVars>>

SpecDelivery == InitAssistantOn /\ [][NextDelivery]_vars

\* ---- one browser logged in to one of the accounts, its token pair the one
\* the server issued at start
InitLoggedIn ==
    /\ now = 0
    /\ authRev = "split"
    /\ users = [i \in UserIds |->
                 [email |-> EmailOf(i),
                  password |-> Hash("pw1"),
                  refreshToken |-> generateRefreshToken(i, 0),
                  profilePic |-> Missing,
                  bio |-> "Hey there!"]]
    /\ earlier = {}
    /\ latest = [u \in UserIds |-> 0]
    /\ res = NoRes
    /\ handler = [c \in Handlers |-> IdleHandler]
    /\ InitSockets
    /\ InitChat
    /\ aiEnabled = FALSE
    /\ \E u \in UserIds :
          /\ jar = generateRefreshToken(u, 0)
          /\ held = generateToken(u, 0)
          /\ page = connectSocket([FreshPage("tokenRefreshFail") EXCEPT !.authUser = u])
    /\ requests = << >>

NextClient ==
    \/ ClientSend /\ UNCHANGED <<socketVars, chatVars>>
    \/ \E k \in DOMAIN requests : RefreshReturns(k) /\ UNCHANGED <<socketVars, chatVars>>
    \/ \E k \in DOMAIN requests : RetryReturns(k) /\ UNCHANGED <<socketVars, chatVars>>
    \/ ClientLogin(EmailOf(jar.id), "pw1") /\ UNCHANGED <<socketVars, chatVars>>
    \/ Tick /\ UNCHANGED <<socketVars, chatVars, clientVars>>

SpecClient == InitLoggedIn /\ [][NextClient]_vars

\* ---- one browser tab from the moment the page loads, with or without a
\* cookie from an earlier visit, under either revision of the interceptor
InitPage ==
    /\ now = 0
    /\ authRev = "split"
    /\ users = [i \in UserIds |->
                 [email |-> EmailOf(i),
                  password |-> Hash("pw1"),
                  refreshToken |-> generateRefreshToken(i, 0),
                  profilePic |-> Missing,
                  bio |-> "Hey there!"]]
    /\ earlier = {}
    /\ latest = [u \in UserIds |-> 0]
    /\ res = NoRes
    /\ handler = [c \in Handlers |-> IdleHandler]
    /\ InitSockets
    /\ InitChat
    /\ aiEnabled = FALSE
    /\ jar \in {NoToken} \cup {generateRefreshToken(u, 0) : u \in UserIds}
    /\ held = NoToken
    /\ requests = <<Checking(jar)>>
    /\ page \in {FreshPage(rev) : rev \in InterceptorRevisions}

NextPage ==
    \/ \E k \in DOMAIN requests : CheckReturns(k) /\ UNCHANGED <<socketVars, chatVars>>
    \/ ClientSend /\ UNCHANGED <<socketVars, chatVars>>
    \/ \E k \in DOMAIN requests : RefreshReturns(k) /\ UNCHANGED <<socketVars, chatVars>>
    \/ \E k \in DOMAIN requests : RetryReturns(k) /\ UNCHANGED <<socketVars, chatVars>>
    \/ \E k \in DOMAIN requests : RecheckReturns(k) /\ UNCHANGED <<socketVars, chatVars>>
    \/ \E e \in Emails : ClientLogin(e, "pw1") /\ UNCHANGED <<socketVars, chatVars>>
    \/ Tick /\ UNCHANGED <<socketVars, chatVars, clientVars>>

SpecPage == InitPage /\ [][NextPage]_vars

\* ---- the AI routes over the accounts database
NextAi ==
    \/ \E h \in Callers, b \in ToggleBodies, f \in BOOLEAN :
          ToggleAiStatus(h, b, f) /\ UNCHANGED <<socketVars, clientVars>>
    \/ \E h \in Callers : GetAiStatus(h) /\ UNCHANGED <<socketVars, clientVars>>
    \/ \E h \in Callers, hm \in BOOLEAN, p \in Texts, g \in GroqOutcomes :
          ChatWithAI(h, hm, p, g) /\ UNCHANGED <<socketVars, clientVars>>
    \/ Tick /\ UNCHANGED <<socketVars, chatVars, clientVars>>

SpecAi == InitAccounts /\ [][NextAi]_vars

\* ---- the two routes behind the upload gate, for every kind of body
NextUpload ==
    \/ \E h \in Callers, g \in UploadGates, r \in UserIds,
          i \in {Missing, FileUpload}, f \in Failures :
          SendMessage(h, g, r, "hi", i, f) /\ UNCHANGED <<socketVars, clientVars>>
    \/ \E h \in Callers, g \in UploadGates, b \in Texts, file \in BOOLEAN, f \in Failures :
          UpdateProfile(h, g, b, file, f) /\ UNCHANGED <<socketVars, chatVars, clientVars>>

SpecUpload == InitAssistantOn /\ [][NextUpload]_vars

\* ---- logins, right and wrong, for the accounts of the database
NextLogin ==
    \/ \E e \in Emails, p \in Passwords \cup {WrongPassword} :
          Login(e, p) /\ UNCHANGED <<socketVars, chatVars, clientVars>>
    \/ \E k \in {generateRefreshToken(p[1], p[2]) : p \in Issued} :
          Refresh(k) /\ UNCHANGED <<socketVars, chatVars, clientVars>>
    \/ Tick /\ UNCHANGED <<socketVars, chatVars, clientVars>>

SpecLogin == InitAssistantOn /\ [][NextLogin]_vars

\* ---- signup requests served concurrently: each handler yields at the
\* awaits between User.findOne (line 14) and User.create (line 20)
\* a handler that found no user with its email and is hashing the password
HashingSignup(email, password) == [pc |-> "hash", email |-> email, password |-> password]

SignupDone(status) == [IdleHandler EXCEPT !.pc = "done", !.status = status]

\* lines 9-17: the field check and the lookup by email
SignupBegin(c, fullName, email, password) ==
    /\ handler[c].pc = "idle"
    /\ IF fullName = Missing \/ email = Missing \/ password = Missing
       THEN /\ res' = Response("signup", 400, NoToken, NoToken, GhostId, NoToken,
                               "All fields are required")
            /\ handler' = [handler EXCEPT ![c] = SignupDone(400)]
       ELSE IF FindByEmail(users, email) # {}
       THEN /\ res' = Response("signup", 400, NoToken, NoToken, GhostId, NoToken,
                               "User already exists")
            /\ handler' = [handler EXCEPT ![c] = SignupDone(400)]
       ELSE /\ res' = res
            /\ handler' = [handler EXCEPT ![c] = HashingSignup(email, password)]
    /\ UNCHANGED <<now, authRev, users, earlier, latest>>

\* lines 20-32: User.create, which no index of the schema can refuse, the
\* token pair, and the answer
SignupCommit(c) ==
    /\ handler[c].pc = "hash"
    /\ LET id == Len(users) + 1 IN
          /\ id <= MaxUsers
          /\ users' = signupStore(Append(users, NewUser(handler[c].email, handler[c].password)),
                                  id, generateRefreshToken(id, now))
          /\ Issue(id)
          /\ res' = Response("signup", 201, generateRefreshToken(id, now),
                             generateToken(id, now), id, NoToken, "created")
    /\ handler' = [handler EXCEPT ![c] = SignupDone(201)]
    /\ UNCHANGED <<now, authRev>>

NextSignup ==
    \/ \E c \in Handlers, f \in {Missing, "name"}, e \in Emails \cup {Missing},
          p \in Passwords \cup {Missing} :
          SignupBegin(c, f, e, p) /\ UNCHANGED <<socketVars, chatVars, clientVars>>
    \/ \E c \in Handlers : SignupCommit(c) /\ UNCHANGED <<socketVars, chatVars, clientVars>>
    \/ Tick /\ UNCHANGED <<socketVars, chatVars, clientVars>>

SpecSignup == Init /\ [][NextSignup]_vars

\* ---- the user document inside the JSON bodies
\* the paths the User schema marks select: false
Unselected == {"password", "refreshToken"}

\* a user document as a query returns it; plus names the paths asked for
\* with select("+path")
Queried(doc, plus) == [f \in DOMAIN doc \ (Unselected \ plus) |-> doc[f]]

\* const { password, refreshToken, ...rest } = user.toObject()
Without(doc, paths) == [f \in DOMAIN doc \ paths |-> doc[f]]

\* the user document each route puts in its body: signup sends the document
\* User.create returned, with the refreshToken assigned to it; the others
\* send the result of a query
userData(op, db, id) ==
    IF op = "signup" THEN db[id]
    ELSE IF op = "login" THEN Without(Queried(db[id], {"password"}), {"password"})
    ELSE IF op = "refresh"
         THEN Without(Queried(db[id], {"refreshToken"}), {"password", "refreshToken"})
    ELSE IF op = "users" THEN Without(Queried(db[id], {}), {"password"})
    ELSE Queried(db[id], {})

\* ================================================================ claims
RefreshOf(p) == generateRefreshToken(p[1], p[2])
AccessOf(p) == generateToken(p[1], p[2])
Stored(u) == users[u].refreshToken

\* a step of Spec that served a refresh-token request
RefreshStep == now' = now /\ res'.op = "refresh"

\* a step that issued a refresh token: signup, login or a successful refresh
IssueStep == now' = now /\ res'.cookie # NoToken /\ res'.status \in {200, 201}

\* C1: the refresh endpoint accepts only the refresh-token value stored on
\* the User record, and rejects with 401 every refresh token issued to the
\* user before the latest one.
C1_OnlyStoredAccepted ==
    /\ \A k \in Presentable :
          RefreshResult(k).status = 200 => Exists(users, k.id) /\ k = Stored(k.id)
    /\ \A p \in earlier : RefreshResult(RefreshOf(p)).status = 401

\* C2: a refresh token just issued is accepted by the next refresh-token
\* call, and the token presented to a successful refresh is rejected with 401
\* by the call after it, which nulls the stored token, also when the calls
\* follow the issue within the same second.
C2_RefreshExactlyOnce ==
    [][/\ IssueStep => (RefreshResult(res.cookie).status = 200)'
       /\ (RefreshStep /\ res'.status = 200) =>
             /\ (RefreshResult(res.presented).status = 401)'
             /\ (RefreshEffect(res.presented)[res.presented.id].refreshToken = NoToken)'
      ]_vars

C5_LogoutRevokes ==
    [][/\ (now' = now /\ res'.op = "logout" /\ res'.status = 200) =>
             users'[res'.user].refreshToken = NoToken
       /\ \A u \in DOMAIN users :
             Stored(u) = NoToken =>
                /\ \A p \in Issued : p[1] = u => RefreshResult(RefreshOf(p)).status = 401
                /\ Stored(u)' # NoToken =>
                      res'.op \in {"login", "signup"} /\ res'.user = u
      ]_vars

\* U logged out while holding a refresh token that has not expired
C5_Witness ==
    /\ res.op = "logout" /\ res.status = 200
    /\ Stored(res.user) = NoToken
    /\ JwtVerify(RefreshOf(<<res.user, latest[res.user]>>), JWT_REFRESH_SECRET_KEY, now) = "ok"

\* C6: an access token presented as the refreshToken cookie is answered 401
\* and leaves the User collection as it is; a refresh token presented as a
\* bearer token passes neither verifyToken nor verifySocket.
C6_TokensNotInterchangeable ==
    \A p \in Issued \cup {<<GhostId, 0>>} :
        /\ RefreshResult(AccessOf(p)).status = 401
        /\ RefreshEffect(AccessOf(p)) = users
        /\ ~verifyToken([present |-> TRUE, token |-> RefreshOf(p)], users, now).next
        /\ \A q \in {NoToken, RefreshOf(p)}, w \in UserIds :
              ~verifySocket([auth |-> RefreshOf(p), query |-> q, queryUserId |-> w],
                            users, now).ok
        /\ ~verifySocket([auth |-> NoToken, query |-> RefreshOf(p), queryUserId |-> p[1]],
                         users, now).ok

\* a live access token was sent as the cookie and refused
C6_Witness ==
    /\ res.op = "refresh" /\ res.status = 401
    /\ res.presented \in {AccessOf(p) : p \in Issued}
    /\ JwtVerify(res.presented, JWT_SECRET_KEY, now) = "ok"
    /\ Exists(users, res.presented.id)
    /\ Stored(res.presented.id) = RefreshOf(<<res.presented.id, res.presented.iat>>)

\* C7: verifyToken calls the downstream handler only for a header whose token
\* verifies against the access secret, is not expired and resolves to an
\* existing user, which becomes req.user; every other request is answered 401.
C7_VerifyToken ==
    \A h \in Headers :
        LET a == verifyToken(h, users, now)
            good == /\ h.present /\ h.token # NoToken
                    /\ JwtVerify(h.token, JWT_SECRET_KEY, now) = "ok"
                    /\ Exists(users, h.token.id)
        IN  /\ a.next <=> good
            /\ a.next => a.user = h.token.id
            /\ ~a.next => a.status = 401

\* C4: a refresh handler rotates the token only if the token it was given is
\* the one persisted when it writes the new one; of two overlapping handlers
\* given the same token at most one answers 200, and once both are done the
\* stored token is the one the successful handler returned.
C4_RotationIsAtomic ==
    [][\A c \in Handlers :
          (handler[c].pc = "read" /\ handler'[c].pc = "done") =>
             /\ handler'[c].status = 200 =>
                   /\ Exists(users, handler[c].cookie.id)
                   /\ Stored(handler[c].cookie.id) = handler[c].cookie
             /\ \A d \in handler[c].conc :
                   (handler[d].pc = "done" /\ handler[d].cookie = handler[c].cookie) =>
                      /\ ~(handler[d].status = 200 /\ handler'[c].status = 200)
                      /\ handler[d].status = 200 =>
                            users'[handler[c].cookie.id].refreshToken = handler[d].out
                      /\ handler'[c].status = 200 =>
                            users'[handler[c].cookie.id].refreshToken = handler'[c].out
      ]_vars

\* a step that served a handshake, and one that opened a connection
HandshakeStep == now' = now /\ sockets \subseteq sockets'
Opened == sockets' \ sockets
Preferred(h) == IF h.auth # NoToken THEN h.auth ELSE h.query

\* C8: a connection is opened, the presence map changed and a broadcast sent
\* only for a handshake whose token (the auth payload's before the query's)
\* verifies, is not expired and names an existing user; any other handshake
\* is refused with an authentication error, the map and the broadcasts
\* untouched.
C8_VerifySocketGates ==
    [][HandshakeStep =>
        LET k == Preferred(handshake')
            good == /\ k # NoToken
                    /\ JwtVerify(k, JWT_SECRET_KEY, now) = "ok"
                    /\ Exists(users, k.id)
        IN  /\ Opened # {} => (good /\ handshake'.accepted /\ \A s \in Opened : s.token = k)
            /\ (~good /\ handshake' # handshake) =>
                 /\ ~handshake'.accepted
                 /\ handshake'.error = "Authentication error"
            /\ ~handshake'.accepted =>
                 /\ Opened = {}
                 /\ userSocketMap' = userSocketMap
                 /\ emitted' = emitted
                 /\ received' = received
      ]_vars

\* the auth payload's token won over a valid query token of another user
C8_Witness ==
    /\ handshake.accepted
    /\ handshake.auth # NoToken /\ handshake.query # NoToken
    /\ JwtVerify(handshake.query, JWT_SECRET_KEY, now) = "ok"
    /\ handshake.query.id # handshake.auth.id
    /\ \E s \in sockets : s.id = nextSocket - 1 /\ s.token = handshake.auth
                          /\ userSocketMap[handshake.auth.id] = s.id

\* C9: every entry userId -> socketId of the presence map belongs to an open
\* connection that was authenticated with a signed access token of that
\* userId, whatever userId its handshake query named.
C9_PresenceKeysVerified ==
    \A u \in DOMAIN userSocketMap :
        \E s \in sockets :
            /\ s.id = userSocketMap[u]
            /\ s.token.id = u
            /\ s.token \in {AccessOf(p) : p \in Issued}

\* the connection just registered came with a query naming somebody else
C9_Witness ==
    /\ handshake.accepted
    /\ \E u \in DOMAIN userSocketMap :
          /\ userSocketMap[u] = nextSocket - 1
          /\ handshake.queryUserId \in UserIds \ {u}
          /\ \E s \in sockets : s.id = nextSocket - 1 /\ s.userId = u

\* C10: a connect sets map[userId] to the new socket id and every open
\* connection then receives the key set after the mutation; a disconnect
\* deletes map[userId] and every remaining connection receives the key set
\* after the deletion, without the disconnected id and with every other id
\* that was online.
C10_PresenceBroadcast ==
    [][/\ (HandshakeStep /\ Opened # {}) =>
             \A s \in Opened :
                /\ userSocketMap'[s.userId] = s.id
                /\ emitted' = emitted + 1
                /\ \A x \in sockets' : received'[x.id] = DOMAIN userSocketMap'
                /\ s.userId \in received'[s.id]
       /\ \A s \in sockets \ sockets' :
             /\ s.userId \notin DOMAIN userSocketMap'
             /\ emitted' = emitted + 1
             /\ \A x \in sockets' :
                   /\ received'[x.id] = DOMAIN userSocketMap'
                   /\ s.userId \notin received'[x.id]
                   /\ \A v \in DOMAIN userSocketMap : v # s.userId => v \in received'[x.id]
      ]_vars

\* two identities connected, the second left, the first was told so
C10_Witness ==
    /\ nextSocket = 3 /\ emitted = 3
    /\ handshake.accepted
    /\ \E s \in sockets :
          /\ sockets = {s} /\ s.id = 1
          /\ Preferred(handshake).id # s.userId
          /\ received[s.id] = {s.userId}

\* the users with at least one open authenticated connection
Connected == {s.userId : s \in sockets}

\* C11: the key set of the presence map, and the getOnlineUsers payload every
\* open connection holds, is the set of users that have at least one open
\* authenticated connection, also when a user holds several connections.
C11_PresenceIsLive ==
    /\ DOMAIN userSocketMap = Connected
    /\ \A s \in sockets : received[s.id] = Connected

\* a step in which a newMessage event was emitted
Emitted == pushed' # pushed

\* the bearer headers verifyToken lets through
Admitted == {h \in Callers : verifyToken(h, users, now).next}

\* C12: a newMessage event is emitted only by a send answered 201, carries
\* the record that send has just persisted and goes to the one socket the
\* presence map holds for that record's receiverId; a send whose save fails
\* emits nothing, stores nothing and is answered 500.
C12_WriteThenNotify ==
    [][/\ Emitted =>
            /\ res'.op = "send" /\ res'.status = 201
            /\ Len(messages') = Len(messages) + 1
            /\ pushed'.msg = Len(messages')
            /\ messages'[pushed'.msg].id = pushed'.msg
            /\ messages'[pushed'.msg].receiverId \in DOMAIN userSocketMap
            /\ pushed'.to = userSocketMap[messages'[pushed'.msg].receiverId]
       /\ \A h \in Admitted, g \in UploadGates \ {"off"}, r \in UserIds :
             SendMessage(h, g, r, "hi", Missing, "save") =>
                /\ res'.status = 500
                /\ ~Emitted
                /\ messages' = messages
      ]_vars

\* the receiver got the event on its socket while the sender's socket, also
\* open, got none
C12_Witness ==
    /\ res.op = "send" /\ res.status = 201
    /\ pushed.msg = Len(messages)
    /\ messages[pushed.msg].receiverId \in DOMAIN userSocketMap
    /\ pushed.to = userSocketMap[messages[pushed.msg].receiverId]
    /\ messages[pushed.msg].senderId # messages[pushed.msg].receiverId
    /\ \E s \in sockets : s.userId = res.user /\ s.id # pushed.to

\* C14: a send by an authenticated caller to a recipient without an entry in
\* the presence map, when nothing fails, is answered 201, appends the record
\* with seen=false and emits no event; every stored message is in the history
\* either of its two parties fetches.
C14_OfflineDelivery ==
    [][/\ \A h \in Admitted, g \in UploadGates, r \in UserIds \ DOMAIN userSocketMap :
             SendMessage(h, g, r, "hi", Missing, "none") =>
                /\ res'.status = 201
                /\ Len(messages') = Len(messages) + 1
                /\ messages'[Len(messages')].receiverId = r
                /\ messages'[Len(messages')].seen = FALSE
                /\ ~Emitted
       /\ \A i \in DOMAIN messages' :
             LET m == messages'[i] IN
             /\ \E j \in DOMAIN Between(messages', m.senderId, m.receiverId) :
                   Between(messages', m.senderId, m.receiverId)[j].id = m.id
             /\ \E j \in DOMAIN Between(messages', m.receiverId, m.senderId) :
                   Between(messages', m.receiverId, m.senderId)[j].id = m.id
      ]_vars

\* C13: no stored Message has both an empty or absent text and an empty or
\* absent image, whether sendMessage or chatWithAI wrote it.
C13_NoEmptyMessage ==
    \A i \in DOMAIN messages :
        messages[i].text # Missing \/ messages[i].image # Missing

\* the fields of a stored message that no operation may touch
Content(m) == [id |-> m.id, senderId |-> m.senderId, receiverId |-> m.receiverId,
               text |-> m.text, image |-> m.image]

\* C15: no step removes a stored message or changes its senderId,
\* receiverId, text or image, and no step takes its seen flag from true back
\* to false.
C15_MessageLifecycle ==
    [][/\ Len(messages') >= Len(messages)
       /\ \A i \in DOMAIN messages :
             /\ Content(messages'[i]) = Content(messages[i])
             /\ messages[i].seen => messages'[i].seen
      ]_vars

\* a mark-seen call was served on a collection holding a message already seen
\* and one not yet seen, both written by sendMessage
C15_Witness ==
    /\ res.op = "seen" /\ res.status = 200
    /\ \E i, j \in DOMAIN messages :
          /\ messages[i].seen /\ ~messages[j].seen
          /\ messages[i].senderId \in UserIds /\ messages[i].receiverId \in UserIds

C17_HistoryFetch ==
    [][\A h \in Admitted, v \in UserIds :
          GetAllMessages(h, v) =>
             LET u == verifyToken(h, users, now).user
                 list == Between(messages, u, v)
             IN  /\ res'.status = 200
                 /\ DOMAIN messages' = DOMAIN messages
                 /\ \A i \in DOMAIN messages :
                       messages'[i] =
                          IF messages[i].senderId = v /\ messages[i].receiverId = u
                          THEN [messages[i] EXCEPT !.seen = TRUE]
                          ELSE messages[i]
                 /\ \A i \in DOMAIN messages :
                       ({messages[i].senderId, messages[i].receiverId} = {u, v})
                          <=> (\E j \in DOMAIN list : list[j] = messages[i])
                 /\ \A j, k \in DOMAIN list : j < k => list[j].id < list[k].id
      ]_vars

\* the fetch marked the peer's message seen and left the caller's own, sent
\* later to the peer, unseen
C17_Witness ==
    /\ res.op = "history" /\ res.status = 200
    /\ \E i, j \in DOMAIN messages :
          /\ messages[i].receiverId = res.user /\ messages[i].senderId # res.user
          /\ messages[i].seen
          /\ messages[j].senderId = res.user
          /\ messages[j].receiverId = messages[i].senderId
          /\ ~messages[j].seen

\* C18: the seen flag of a message written by sendMessage becomes true only
\* in a step that served a request authenticated as the message's receiver.
C18_SeenByReceiverOnly ==
    [][\A i \in DOMAIN messages :
          (~messages[i].seen /\ messages'[i].seen) => res'.user = messages[i].receiverId
      ]_vars

\* C19: the users list of GET /messages/users for caller U is every user but
\* U, and the count it gives for V is the number of stored messages V sent
\* to U that are not seen, whichever way mongoose treats the filter.
C19_SidebarCounts ==
    \A u \in DOMAIN users, strictQuery \in BOOLEAN :
        /\ filteredUsers(users, u) = DOMAIN users \ {u}
        /\ \A v \in filteredUsers(users, u) :
              unseenMsgs(users, messages, u, strictQuery)[v] =
                 Cardinality({i \in DOMAIN messages :
                                 /\ messages[i].senderId = v
                                 /\ messages[i].receiverId = u
                                 /\ ~messages[i].seen})

\* C20: while the browser holds the stored, unexpired refresh cookie, no
\* refresh call of the interceptor makes the server null the stored refresh
\* token or ends with the session cleared: the request is sent again with
\* the new access token.
C20_SeamlessRefresh ==
    [][\A k \in DOMAIN requests :
          (/\ jar = Stored(jar.id)
           /\ JwtVerify(jar, JWT_REFRESH_SECRET_KEY, now) = "ok"
           /\ RefreshReturns(k))
          => /\ Stored(jar.id)' # NoToken
             /\ requests'[k].phase = "retry"
             /\ held' # NoToken
      ]_vars

\* the first revision's failure path: the page is replaced by /login
Reloads ==
    /\ page.rev = "isRefreshing"
    /\ \E k \in DOMAIN requests : RefreshReturns(k) /\ res'.status = 401

\* C21: a request whose refresh was attempted is never refreshed again and,
\* once settled, is not resent; a 401 answered to a refresh-token call never
\* starts another refresh; and when an interceptor refresh call fails the
\* client is left logged out: authUser null, no access token, the socket
\* connection closed, the online list empty.
C21_InterceptorTerminates ==
    [][/\ \A k \in DOMAIN requests' :
             requests'[k].url = "refresh-token" => requests'[k].phase # "refresh"
       /\ ~Reloads =>
             \A k \in DOMAIN requests :
                /\ requests[k].phase = "retry" =>
                      requests'[k].phase \in {"retry", "done", "rejected"}
                /\ requests[k].phase \in {"done", "rejected"} =>
                      requests'[k] = requests[k]
       /\ \A k \in DOMAIN requests :
             (RefreshReturns(k) /\ res'.status = 401) =>
                /\ page'.authUser = 0
                /\ held' = NoToken
                /\ ~page'.wire
                /\ ~page'.onlineUsers
      ]_vars

\* C22: the user document in the body of a successful signup, login or
\* refresh-token response, and the one get-profile, update-profile and the
\* users list send for any user, has neither the password hash nor the
\* refresh token; the token in the body is an access token.
C22_NoSecretsInBody ==
    /\ (res.op \in {"signup", "login", "refresh"} /\ res.status \in {200, 201}) =>
          /\ DOMAIN userData(res.op, users, res.user) \cap Unselected = {}
          /\ res.token.sec = JWT_SECRET_KEY
    /\ \A id \in DOMAIN users, op \in {"get-profile", "update-profile", "users"} :
          DOMAIN userData(op, users, id) \cap Unselected = {}

\* C23: however signup requests interleave, no two User records ever have
\* the same email, and a signup whose email already belongs to a user is
\* answered 400 and creates no record.
C23_EmailUnique ==
    [][/\ \A i, j \in DOMAIN users' : users'[i].email = users'[j].email => i = j
       /\ \A c \in Handlers, e \in Emails :
             (FindByEmail(users, e) # {} /\ SignupBegin(c, "name", e, "pw1")) =>
                res'.status = 400 /\ users' = users
      ]_vars

NotEnabled == {"off", "unset"}

\* C25: with uploads not enabled, a send-message or update-profile request
\* carrying an image file is answered 403 by the gate's JSON body and writes
\* neither a message nor a profile; it never reaches express's own error
\* handler.
C25_UploadsDisabled403 ==
    [][/\ \A h \in Admitted, g \in NotEnabled, r \in UserIds, f \in Failures :
             SendMessage(h, g, r, "hi", FileUpload, f) =>
                /\ res'.status = 403
                /\ res'.why # ExpressErrorPage
                /\ messages' = messages
       /\ \A h \in Admitted, g \in NotEnabled, b \in Texts, f \in Failures :
             UpdateProfile(h, g, b, TRUE, f) =>
                /\ res'.status = 403
                /\ res'.why # ExpressErrorPage
                /\ users' = users
      ]_vars

\* C28: a text-only send and a profile update without a file pass the
\* upload gate whatever the admin's flag: with nothing else failing they are
\* answered 201 and 200 and do their write.
C28_GateOnlyForFiles ==
    [][/\ \A h \in Admitted, g \in UploadGates, r \in UserIds :
             SendMessage(h, g, r, "hi", Missing, "none") =>
                res'.status = 201 /\ Len(messages') = Len(messages) + 1
       /\ \A h \in Admitted, g \in UploadGates, b \in Texts :
             UpdateProfile(h, g, b, FALSE, "none") =>
                /\ res'.status = 200
                /\ users' = profileUpdate(users, verifyToken(h, users, now).user, b, Missing)
      ]_vars

\* C26: a login with the email of an existing user and a password that is
\* not theirs is answered 400 with no access token and no refresh cookie,
\* and leaves every stored refresh token as it was.
C26_WrongPassword ==
    [][\A u \in DOMAIN users, p \in Passwords \cup {WrongPassword} :
          (Hash(p) # users[u].password /\ Login(users[u].email, p)) =>
             /\ res'.status = 400
             /\ res'.token = NoToken
             /\ res'.cookie = NoToken
             /\ users' = users
      ]_vars

\* a login was refused while the session of every account was still good
C26_Witness ==
    /\ res.op = "login" /\ res.status = 400
    /\ now > 0
    /\ \A u \in DOMAIN users :
          /\ Stored(u) # NoToken
          /\ RefreshResult(Stored(u)).status = 200

\* C27: a signup with fullName, password and an unused email is answered
\* 201 and creates one user; the access token in the body names that user,
\* the refresh token stored on the user is the one set in the cookie, and
\* the cookie is HttpOnly and SameSite=Strict.
C27_SignupIssuesSession ==
    [][\A e \in Emails, p \in Passwords :
          (FindByEmail(users, e) = {} /\ Signup("name", e, p)) =>
             /\ res'.status = 201
             /\ Len(users') = Len(users) + 1
             /\ users'[Len(users')].email = e
             /\ res'.token = generateToken(Len(users'), now)
             /\ res'.cookie # NoToken
             /\ users'[Len(users')].refreshToken = res'.cookie
             /\ cookieOptions.httpOnly /\ cookieOptions.sameSite = "strict"
      ]_vars

\* the account a signup just created holds the cookie's token, and the
\* access token it was given passes the session middleware as that account
C27_Witness ==
    /\ res.op = "signup" /\ res.status = 201
    /\ res.user = Len(users)
    /\ users[res.user].refreshToken = res.cookie
    /\ verifyToken([present |-> TRUE, token |-> res.token], users, now).user = res.user

\* C29: every message a send persists has as senderId the user the session
\* middleware resolved from the caller's access token and as receiverId the
\* path parameter, whatever senderId the body names; a send stores at most
\* that one message and changes no other.
C29_SenderAuthentic ==
    [][messages' # messages =>
       \A h \in Callers, g \in UploadGates, r \in UserIds \cup {AiAssistantId},
          c \in ClaimedSenders, f \in Failures :
          sendMessage(h, g, r, [text |-> "hi", image |-> Missing, senderId |-> c], f) =>
             /\ verifyToken(h, users, now).next
             /\ messages' = Append(messages, messages'[Len(messages')])
             /\ messages'[Len(messages')].senderId = verifyToken(h, users, now).user
             /\ messages'[Len(messages')].senderId = h.token.id
             /\ messages'[Len(messages')].receiverId = r
      ]_vars

\* both accounts have sent, each message under its own sender's name
C29_Witness ==
    /\ res.op = "send" /\ res.status = 201
    /\ Len(messages) = MaxMessages
    /\ messages[Len(messages)].senderId = res.user
    /\ \A u \in UserIds : \E i \in DOMAIN messages :
          messages[i].senderId = u /\ messages[i].receiverId # u

\* the stored messages user u sent or received
Involving(db, u) == SelectSeq(db, LAMBDA m : m.senderId = u \/ m.receiverId = u)

\* C30: the list a history fetch returns to caller U holds only messages U
\* sent or received, whatever the path parameter, and is the list the same
\* fetch returns from the store without the messages that do not involve U.
C30_OnlyOwnConversations ==
    [][res'.op = "history" =>
       \A h \in Callers, v \in UserIds \cup {AiAssistantId} :
          (verifyToken(h, users, now).next /\ GetAllMessages(h, v)) =>
             LET u == verifyToken(h, users, now).user
                 list == Between(messages, u, v)
             IN  /\ res'.status = 200 /\ res'.user = u
                 /\ \A j \in DOMAIN list : list[j].senderId = u \/ list[j].receiverId = u
                 /\ list = Between(Involving(messages, u), u, v)
      ]_vars

\* a fetch served while the store held a message of the caller's and one the
\* caller neither sent nor received, whose sender is the caller's peer
C30_Witness ==
    /\ res.op = "history" /\ res.status = 200
    /\ \E i, j \in DOMAIN messages :
          /\ messages[i].senderId # res.user /\ messages[i].receiverId # res.user
          /\ {messages[j].senderId, messages[j].receiverId} = {res.user, messages[i].senderId}
          /\ Between(messages, res.user, messages[i].senderId) # <<>>
          /\ Between(messages, res.user, messages[i].senderId) # messages

====
